---------------------------- MODULE Spec2Model ----------------------------
(***************************************************************************)
(* Model of the sign-transaction flow of the Hathor Ledger application:    *)
(* the APDU handler handle_sign_tx, the streaming decoder                  *)
(* decode_next_element, the change-output verifier and the two button      *)
(* handlers (output review and final confirmation), together with the      *)
(* part of the main loop that turns exceptions into status words.          *)
(*                                                                         *)
(* Bytes are naturals 0..255.  Arrays of the C code are sequences that are *)
(* indexed from 1, so C offset k is index k + 1.                           *)
(***************************************************************************)
EXTENDS Integers, Sequences, FiniteSets, TLC

(***************************************************************************)
(* Status words and decoder results                                        *)
(***************************************************************************)
SW_DEVELOPER_ERR == 27392
SW_INVALID_PARAM == 27393
SW_USER_REJECTED == 27013
SW_OK == 36864

\* tx_decoder_state_e: the values thrown by _decode_next_element.
TX_STATE_ERR == 1
TX_STATE_PARTIAL == 2
TX_STATE_READY == 3
TX_STATE_FINISHED == 4

\* enum sign_tx_state_e
UNINITIALIZED == 0
RECEIVING_DATA == 1
USER_APPROVED == 2

\* tx_element_type_e
ELEM_TOKEN_UID == 0
ELEM_INPUT == 1
ELEM_OUTPUT == 2

\* sizeof(ctx->buffer)
BUFFER_SIZE == 300
\* bytes of a token uid, and of an input (tx_id + index + data_len)
TOKEN_UID_LEN == 32
INPUT_LEN == 35
\* number of characters of line2 shown at once
SCREEN_LEN == 12

Pow2(n) == 2 ^ n
\* a uint64_t is four 16-bit limbs, most significant first
LIMB == Pow2(16)
Min(a, b) == IF a < b THEN a ELSE b

(***************************************************************************)
(* Big-endian readers (U2BE, U4BE of the SDK, U8BE of util.h); off is the  *)
(* C offset.                                                               *)
(***************************************************************************)
U2BE(buf, off) == buf[off + 1] * 256 + buf[off + 2]
U4BE(buf, off) == ((buf[off + 1] * 256 + buf[off + 2]) * 256 + buf[off + 3]) * 256 + buf[off + 4]
U8BE(buf, off) == <<U2BE(buf, off), U2BE(buf, off + 2), U2BE(buf, off + 4), U2BE(buf, off + 6)>>

\* a 32-bit value widened to uint64_t
Widen(buf, off) == <<0, 0, U2BE(buf, off), U2BE(buf, off + 2)>>
ZeroValue == <<0, 0, 0, 0>>

\* (-1) * tmp in uint64_t: the two's complement, limb by limb from the right
RECURSIVE NegLimbs(_, _)
NegLimbs(v, carry) ==
    IF v = <<>> THEN <<>>
    ELSE LET n == Len(v)
             t == (LIMB - 1 - v[n]) + carry
         IN  NegLimbs(SubSeq(v, 1, n - 1), t \div LIMB) \o <<t % LIMB>>
Neg64(v) == NegLimbs(v, 1)

\* value / d and value % d for a small d, by long division
RECURSIVE DivLimbs(_, _, _)
DivLimbs(v, d, rem) ==
    IF v = <<>> THEN [q |-> <<>>, r |-> rem]
    ELSE LET cur == rem * LIMB + v[1]
             rest == DivLimbs(Tail(v), d, cur % d)
         IN  [q |-> <<cur \div d>> \o rest.q, r |-> rest.r]

\* n copies of byte b
Rep(n, b) == [i \in 1..n |-> b]

\* os_memmove(buf, buf + off, n) on the working buffer
Memmove(buf, off, n) ==
    [i \in 1..BUFFER_SIZE |-> IF i <= n /\ i + off <= BUFFER_SIZE THEN buf[i + off] ELSE buf[i]]

\* os_memcpy(buf + at, data, Len(data)) on the working buffer
MemcpyAt(buf, at, data) ==
    [i \in 1..BUFFER_SIZE |-> IF i > at /\ i <= at + Len(data) THEN data[i - at] ELSE buf[i]]


(***************************************************************************)
(* Cryptographic collaborators, kept symbolic.                             *)
(*                                                                         *)
(* Hash160OfKey(k) stands for hash160 of the compressed public key derived *)
(* for path 44'/280'/0'/0/k: a 20-byte value that differs for different k. *)
(* A SHA-256 context is the sequence of bytes fed to it; a digest is the   *)
(* record of what was hashed and how many times, with a first byte that is *)
(* a function of both.                                                     *)
(***************************************************************************)
Hash160OfKey(k) ==
    <<k % 256, (k \div 256) % 256, (k \div 65536) % 256, (k \div 16777216) % 256>>
        \o Rep(16, 90)

RECURSIVE SumBytes(_)
SumBytes(s) ==
    IF Len(s) = 0 THEN 0
    ELSE IF Len(s) = 1 THEN s[1]
    ELSE SumBytes(SubSeq(s, 1, Len(s) \div 2)) + SumBytes(SubSeq(s, Len(s) \div 2 + 1, Len(s)))

\* first byte of the n-fold SHA-256 of msg: any byte value, 0 included
DigestByte0(msg, n) == (SumBytes(msg) + 7 * Len(msg) + n + 119) % 256

\* a 32-byte hash value: n-fold SHA-256 of msg.  n = 0 is the all-zero array.
Digest(msg, n) == [msg |-> msg, n |-> n, b0 |-> IF n = 0 THEN 0 ELSE DigestByte0(msg, n)]
ZeroDigest == Digest(<<>>, 0)

\* cx_ecdsa_sign with the key of index k over the 32 bytes of sighash_all
EcdsaSign(k, digest) == [key |-> k, digest |-> digest]
NoSignature == [key |-> -1, digest |-> ZeroDigest]

(***************************************************************************)
(* Output parsing (hathor.c)                                               *)
(***************************************************************************)
\* assert_length(smaller, larger) throws SW_INVALID_PARAM when this holds
AssertLengthFails(smaller, larger) == smaller > larger

\* parse_output_value: 4-byte value, or 8-byte value when the top bit is set
ParseOutputValue(in, inlen) ==
    LET flag == in[1] >= 128
    IN  IF flag
        THEN IF AssertLengthFails(11, inlen)
             THEN [exc |-> SW_INVALID_PARAM, value |-> ZeroValue, width |-> 0]
             ELSE [exc |-> 0, value |-> Neg64(U8BE(in, 0)), width |-> 8]
        ELSE [exc |-> 0, value |-> Widen(in, 0), width |-> 4]

\* validate_p2pkh_script(in + off): compares in[0..2] and in[23..24] only
ValidP2PKH(in, off) ==
    /\ in[off + 1] = 118
    /\ in[off + 2] = 169
    /\ in[off + 3] = 20
    /\ in[off + 24] = 136
    /\ in[off + 25] = 172

\* parse_output(in, inlen, &output): exc is the exception thrown (0: none),
\* wrote tells whether output->value was already written, consumed is
\* buf - in on return.
ParseOutput(in, inlen) ==
    LET none == [exc |-> SW_INVALID_PARAM, wrote |-> FALSE, value |-> ZeroValue,
                 pubkey_hash |-> Rep(20, 0), consumed |-> 0]
    IN  IF AssertLengthFails(7, inlen) THEN none
        ELSE LET pv == ParseOutputValue(in, inlen)
                 script_len == U2BE(in, pv.width + 1)
                 script == pv.width + 3
             IN  IF pv.exc # 0 THEN none
                 ELSE IF AssertLengthFails(script_len, inlen - 7) \/ ~ValidP2PKH(in, script)
                      THEN [none EXCEPT !.wrote = TRUE, !.value = pv.value]
                      ELSE [exc |-> 0, wrote |-> TRUE, value |-> pv.value,
                            pubkey_hash |-> SubSeq(in, script + 4, script + 23),
                            consumed |-> script + script_len]

(***************************************************************************)
(* verify_change_output(output, index): the parameter is a uint8_t, so the *)
(* 32-bit change_key_index is converted to 8 bits by the call.             *)
(***************************************************************************)
VerifyChangeOutput(pubkey_hash, key_index) ==
    LET index == key_index % 256
    IN  Hash160OfKey(index) = pubkey_hash


(***************************************************************************)
(* Display helpers (hathor.c format_value, util.c utoa and itoa)           *)
(***************************************************************************)
Digit(d) == <<"0", "1", "2", "3", "4", "5", "6", "7", "8", "9">>[d + 1]

\* utoa / itoa for a non-negative value in base 10
RECURSIVE UtoaDigits(_)
UtoaDigits(v) ==
    IF v = ZeroValue THEN <<>>
    ELSE LET dm == DivLimbs(v, 10, 0) IN UtoaDigits(dm.q) \o <<Digit(dm.r)>>

\* variant: utoa without the final strrev
RECURSIVE UtoaDigitsReversed(_)
UtoaDigitsReversed(v) ==
    IF v = ZeroValue THEN <<>>
    ELSE LET dm == DivLimbs(v, 10, 0) IN <<Digit(dm.r)>> \o UtoaDigitsReversed(dm.q)

UtoaNoReverse(v) == IF v = ZeroValue THEN <<Digit(0)>> ELSE UtoaDigitsReversed(v)

\* utoa(value, s)
Utoa(v) == IF v = ZeroValue THEN <<Digit(0)>> ELSE UtoaDigits(v)

\* itoa(value, result, 10) for 0 <= value < 100
Itoa(v) == IF v < 10 THEN <<Digit(v)>> ELSE <<Digit(v \div 10), Digit(v % 10)>>

\* the loop of format_value: copies the digits and writes ',' when c = 1
RECURSIVE GroupDigits(_, _)
GroupDigits(digits, c) ==
    IF digits = <<>> THEN <<>>
    ELSE <<digits[1]>> \o (IF c = 1 THEN <<",">> ELSE <<>>)
            \o GroupDigits(Tail(digits), (c + 1) % 3)

\* variant: format_value without the '0' before a one-digit remainder
FormatValueNoPad(value) ==
    LET dm == DivLimbs(value, 100, 0)
        buf == Utoa(dm.q)
        grouped == GroupDigits(buf, 2 - (Len(buf) % 3))
        left == SubSeq(grouped, 1, Len(grouped) - 1)
        tmp == dm.r
    IN  left \o <<".">> \o Itoa(tmp)

\* format_value(value, out)
FormatValue(value) ==
    LET dm == DivLimbs(value, 100, 0)
        buf == Utoa(dm.q)
        grouped == GroupDigits(buf, 2 - (Len(buf) % 3))
        left == SubSeq(grouped, 1, Len(grouped) - 1)
        tmp == dm.r
    IN  left \o <<".">> \o (IF tmp < 10 THEN <<"0">> ELSE <<>>) \o Itoa(tmp)

\* length of the base-58 text of a 25-byte address (kept symbolic: the text
\* is that many copies of one character)
ADDRESS_B58_LEN == 34
AddressText(pubkey_hash) == [i \in 1..ADDRESS_B58_LEN |-> "H"]

(***************************************************************************)
(* The session context sign_tx_context_t.  ui_idle and the main loop's     *)
(* error path memset it to zero.                                           *)
(***************************************************************************)
ZeroOutput == [index |-> 0, value |-> ZeroValue, pubkey_hash |-> Rep(20, 0)]

ZeroCtx ==
    [state |-> UNINITIALIZED,
     buffer |-> Rep(BUFFER_SIZE, 0),
     buffer_len |-> 0,
     sha256 |-> <<>>,
     sighash_all |-> ZeroDigest,
     has_change_output |-> FALSE,
     change_output_index |-> 0,
     change_key_index |-> 0,
     remaining_tokens |-> 0,
     remaining_inputs |-> 0,
     outputs_len |-> 0,
     elem_type |-> ELEM_TOKEN_UID,
     current_output |-> 0,
     decoded_output |-> ZeroOutput,
     info |-> <<>>,
     display_index |-> 0,
     line1 |-> [text |-> "", k |-> 0, n |-> 0]]

(***************************************************************************)
(* _decode_next_element: one call.  exc is the value thrown (0 when the    *)
(* call returns and the loop of decode_next_element goes on), crash tells  *)
(* that buffer_len wrapped below zero and os_memmove was given a length of *)
(* more than 65000 bytes.                                                  *)
(***************************************************************************)
DecodeToken(c) ==
    IF c.buffer_len < TOKEN_UID_LEN
    THEN [c |-> c, exc |-> TX_STATE_PARTIAL, crash |-> FALSE]
    ELSE [c |-> [c EXCEPT !.remaining_tokens = @ - 1,
                          !.buffer_len = @ - TOKEN_UID_LEN,
                          !.elem_type = ELEM_TOKEN_UID,
                          !.buffer = Memmove(@, TOKEN_UID_LEN, c.buffer_len - TOKEN_UID_LEN)],
          exc |-> 0, crash |-> FALSE]

\* variant: an input is taken to be 32 bytes long when it is removed
DecodeInputRemoves32(c) ==
    IF c.buffer_len < INPUT_LEN
    THEN [c |-> c, exc |-> TX_STATE_PARTIAL, crash |-> FALSE]
    ELSE IF U2BE(c.buffer, 33) > 0
    THEN [c |-> c, exc |-> TX_STATE_ERR, crash |-> FALSE]
    ELSE [c |-> [c EXCEPT !.remaining_inputs = @ - 1,
                          !.buffer_len = @ - TOKEN_UID_LEN,
                          !.elem_type = ELEM_INPUT,
                          !.buffer = Memmove(@, TOKEN_UID_LEN, c.buffer_len - TOKEN_UID_LEN)],
          exc |-> 0, crash |-> FALSE]

\* variant: the data length of an input is not looked at
DecodeInputAnyData(c) ==
    IF c.buffer_len < INPUT_LEN
    THEN [c |-> c, exc |-> TX_STATE_PARTIAL, crash |-> FALSE]
    ELSE [c |-> [c EXCEPT !.remaining_inputs = @ - 1,
                          !.buffer_len = @ - INPUT_LEN,
                          !.elem_type = ELEM_INPUT,
                          !.buffer = Memmove(@, INPUT_LEN, c.buffer_len - INPUT_LEN)],
          exc |-> 0, crash |-> FALSE]

DecodeInput(c) ==
    IF c.buffer_len < INPUT_LEN
    THEN [c |-> c, exc |-> TX_STATE_PARTIAL, crash |-> FALSE]
    ELSE IF U2BE(c.buffer, 33) > 0
    THEN [c |-> c, exc |-> TX_STATE_ERR, crash |-> FALSE]
    ELSE [c |-> [c EXCEPT !.remaining_inputs = @ - 1,
                          !.buffer_len = @ - INPUT_LEN,
                          !.elem_type = ELEM_INPUT,
                          !.buffer = Memmove(@, INPUT_LEN, c.buffer_len - INPUT_LEN)],
          exc |-> 0, crash |-> FALSE]

\* variant: a verified change output is counted twice
DecodeParsedOutputCountsChangeTwice(c, po) ==
    LET out == [index |-> c.current_output, value |-> po.value, pubkey_hash |-> po.pubkey_hash]
        newlen == (c.buffer_len - po.consumed) % Pow2(16)
        d == [c EXCEPT !.decoded_output = out,
                       !.elem_type = ELEM_OUTPUT,
                       !.buffer_len = newlen,
                       !.buffer = Memmove(@, po.consumed, newlen),
                       !.current_output = @ + 1]
    IN  IF po.exc # 0
        THEN [c |-> IF po.wrote THEN [c EXCEPT !.decoded_output.value = po.value] ELSE c,
              exc |-> po.exc, crash |-> FALSE]
        ELSE IF po.consumed > c.buffer_len
        THEN [c |-> [d EXCEPT !.buffer = c.buffer], exc |-> 0, crash |-> TRUE]
        ELSE IF c.has_change_output /\ c.change_output_index = out.index
        THEN IF ~VerifyChangeOutput(out.pubkey_hash, c.change_key_index)
             THEN [c |-> d, exc |-> TX_STATE_ERR, crash |-> FALSE]
             ELSE [c |-> [d EXCEPT !.current_output = @ + 1], exc |-> 0, crash |-> FALSE]
        ELSE [c |-> d, exc |-> TX_STATE_READY, crash |-> FALSE]

\* variant: a verified change output is surfaced like any other output
DecodeParsedOutputShowsChange(c, po) ==
    LET out == [index |-> c.current_output, value |-> po.value, pubkey_hash |-> po.pubkey_hash]
        newlen == (c.buffer_len - po.consumed) % Pow2(16)
        d == [c EXCEPT !.decoded_output = out,
                       !.elem_type = ELEM_OUTPUT,
                       !.buffer_len = newlen,
                       !.buffer = Memmove(@, po.consumed, newlen),
                       !.current_output = @ + 1]
    IN  IF po.exc # 0
        THEN [c |-> IF po.wrote THEN [c EXCEPT !.decoded_output.value = po.value] ELSE c,
              exc |-> po.exc, crash |-> FALSE]
        ELSE IF po.consumed > c.buffer_len
        THEN [c |-> [d EXCEPT !.buffer = c.buffer], exc |-> 0, crash |-> TRUE]
        ELSE IF c.has_change_output /\ c.change_output_index = out.index
                /\ ~VerifyChangeOutput(out.pubkey_hash, c.change_key_index)
        THEN [c |-> d, exc |-> TX_STATE_ERR, crash |-> FALSE]
        ELSE [c |-> d, exc |-> TX_STATE_READY, crash |-> FALSE]

\* the output branch of _decode_next_element, po being what parse_output did
DecodeParsedOutput(c, po) ==
    LET out == [index |-> c.current_output, value |-> po.value, pubkey_hash |-> po.pubkey_hash]
        newlen == (c.buffer_len - po.consumed) % Pow2(16)
        d == [c EXCEPT !.decoded_output = out,
                       !.elem_type = ELEM_OUTPUT,
                       !.buffer_len = newlen,
                       !.buffer = Memmove(@, po.consumed, newlen),
                       !.current_output = @ + 1]
    IN  IF po.exc # 0
        THEN [c |-> IF po.wrote THEN [c EXCEPT !.decoded_output.value = po.value] ELSE c,
              exc |-> po.exc, crash |-> FALSE]
        ELSE IF po.consumed > c.buffer_len
        THEN [c |-> [d EXCEPT !.buffer = c.buffer], exc |-> 0, crash |-> TRUE]
        ELSE IF c.has_change_output /\ c.change_output_index = out.index
        THEN IF ~VerifyChangeOutput(out.pubkey_hash, c.change_key_index)
             THEN [c |-> d, exc |-> TX_STATE_ERR, crash |-> FALSE]
             ELSE [c |-> d, exc |-> 0, crash |-> FALSE]
        ELSE [c |-> d, exc |-> TX_STATE_READY, crash |-> FALSE]

DecodeOutput(c) == DecodeParsedOutput(c, ParseOutput(c.buffer, c.buffer_len))

\* variant: bytes left in the buffer at the end are let through
DecodeEndLenient(c) == [c |-> c, exc |-> TX_STATE_FINISHED, crash |-> FALSE]

DecodeEnd(c) ==
    IF c.buffer_len > 0
    THEN [c |-> c, exc |-> TX_STATE_ERR, crash |-> FALSE]
    ELSE [c |-> c, exc |-> TX_STATE_FINISHED, crash |-> FALSE]

DecodeNextElementStep(c) ==
    IF c.remaining_tokens > 0 THEN DecodeToken(c)
    ELSE IF c.remaining_inputs > 0 THEN DecodeInput(c)
    ELSE IF c.current_output < c.outputs_len THEN DecodeOutput(c)
    ELSE DecodeEnd(c)


(***************************************************************************)
(* State                                                                   *)
(***************************************************************************)
VARIABLES
    ctx,            \* global.sign_tx_context
    screen,         \* what the UX shows: "idle", "compare" or "confirm"
    reply_pending,  \* a request is outstanding (IO_ASYNCH_REPLY was set)
    response,       \* the response APDU sent by the last step, if any
    short_enums,    \* the build stores tx_decoder_state_e in one byte
    fault,          \* the device stopped on a memory fault
    host,           \* the host's position in the byte stream it is sending
    gh,             \* history of the session: outputs surfaced and withheld,
                    \* payload bytes received, bytes the decoder consumed
    ev              \* what the last step did

vars == <<ctx, screen, reply_pending, response, short_enums, fault, host, gh, ev>>

NoResponse == [sw |-> 0, sig |-> NoSignature]
StatusOnly(sw) == [sw |-> sw, sig |-> NoSignature]

(***************************************************************************)
(* decode_next_element: the loop around _decode_next_element and the       *)
(* CATCH_OTHER that stores the exception in a tx_decoder_state_e.          *)
(***************************************************************************)
\* the element the decoder is about to read needs more bytes than the
\* buffer holds
OutputShort(buf, len) ==
    IF len < 1 THEN TRUE
    ELSE LET hdr == IF buf[1] >= 128 THEN 11 ELSE 7
         IN  IF len < hdr THEN TRUE ELSE len < hdr + U2BE(buf, hdr - 2)

NextElementShort(c) ==
    IF c.remaining_tokens > 0 THEN c.buffer_len < TOKEN_UID_LEN
    ELSE IF c.remaining_inputs > 0 THEN c.buffer_len < INPUT_LEN
    ELSE IF c.current_output < c.outputs_len THEN OutputShort(c.buffer, c.buffer_len)
    ELSE FALSE

Exhausted(c) ==
    c.remaining_tokens = 0 /\ c.remaining_inputs = 0 /\ c.current_output = c.outputs_len

\* the fields the decoder consumes from
DecoderView(c) ==
    <<c.buffer, c.buffer_len, c.remaining_tokens, c.remaining_inputs, c.current_output>>

\* the for (;;) of decode_next_element; r is what the call just made did
RECURSIVE DecodeLoop(_, _, _)
RECURSIVE DecodeLoopNext(_, _, _, _)
DecodeLoopNext(c, r, skipped, verifies) ==
    LET isChange == /\ c.remaining_tokens = 0 /\ c.remaining_inputs = 0
                    /\ c.current_output < c.outputs_len
                    /\ r.c.current_output = c.current_output + 1
                    /\ c.has_change_output /\ c.change_output_index = c.current_output
        v == IF isChange /\ ~r.crash THEN verifies + 1 ELSE verifies
    IN  IF r.exc = 0 /\ ~r.crash
        THEN DecodeLoop(r.c,
                        IF isChange
                        THEN Append(skipped, [index |-> c.current_output,
                                              pubkey_hash |-> r.c.decoded_output.pubkey_hash,
                                              key_index |-> c.change_key_index])
                        ELSE skipped,
                        v)
        ELSE [c |-> r.c, e |-> r.exc, crash |-> r.crash, at |-> c,
              skipped |-> skipped, verifies |-> v]

DecodeLoop(c, skipped, verifies) ==
    DecodeLoopNext(c, DecodeNextElementStep(c), skipped, verifies)

\* result = e
CatchResult(e) == IF short_enums THEN e % 256 ELSE e

\* what decode_next_element returns and leaves, c0 being the context it was
\* called with and l the end of its loop; consumed is what the os_memmove
\* calls of the loop removed from the front of the buffer
DecodeResult(c0, l) ==
    [c |-> l.c,
     consumed |-> IF l.crash THEN <<>>
                  ELSE SubSeq(c0.buffer, 1, c0.buffer_len - l.c.buffer_len),
     result |-> CatchResult(l.e),
     crash |-> l.crash,
     skipped |-> l.skipped,
     verifies |-> l.verifies,
     short |-> NextElementShort(l.at),
     kept |-> DecoderView(l.c) = DecoderView(l.at),
     exhausted |-> Exhausted(l.at),
     buflen_at |-> l.at.buffer_len]

DecodeNextElement(c) == DecodeResult(c, DecodeLoop(c, <<>>, 0))

(***************************************************************************)
(* prepare_display_output (sign_tx.c): info, and the "Output k/N" label    *)
(* computed in uint8_t.                                                    *)
(***************************************************************************)
PrepareDisplayOutput(c) ==
    LET out == c.decoded_output
        total_outputs == IF c.has_change_output THEN (c.outputs_len - 2) % 256
                         ELSE (c.outputs_len - 1) % 256
        fake_output_index == IF c.has_change_output /\ out.index < c.change_output_index
                             THEN out.index ELSE (out.index - 1) % 256
    IN  [c EXCEPT !.info = AddressText(out.pubkey_hash) \o <<" ", "H", "T", "R", " ">>
                              \o FormatValue(out.value),
                  !.line1 = [text |-> "Output", k |-> fake_output_index, n |-> total_outputs]]

\* os_memmove(ctx->line1, "Send", 5) and the like
SetLine1(c, text) == [c EXCEPT !.line1 = [text |-> text, k |-> 0, n |-> 0]]


(***************************************************************************)
(* The host.  It sends byte streams built from a few parameters: the       *)
(* change declaration, the header counts and the shape of the elements.    *)
(* The bounds say how many tokens, inputs and outputs a stream declares.   *)
(***************************************************************************)
MaxTokens == 1
MaxInputs == 1
MaxOutputs == 2

\* payload sizes the host uses; the transport carries the length in one byte
MAX_CHUNK == 255
ChunkSizes == {5, 40, 71, MAX_CHUNK}

\* key indexes of change declarations and signing requests
ChangeKeys == {5, 6, 261}
SignKeys == {5, 261}

Kinds == {"ok", "bad_input", "bad_script", "trailing", "val8", "short_script"}

NoChange == [has |-> FALSE, idx |-> 0, key |-> 0]
Changes == {NoChange} \cup [has : {TRUE}, idx : 0..MaxOutputs, key : ChangeKeys]

\* streams with a change declaration and streams with a malformed element
\* have no token, one input and at least one output
StreamParams ==
    {sp \in [ntok : 0..MaxTokens, nin : 0..MaxInputs, nout : 0..MaxOutputs,
             chg : Changes, kind : Kinds] :
        (sp.kind # "ok" \/ sp.chg.has) =>
            /\ sp.ntok = 0 /\ sp.nin = MaxInputs /\ sp.nout > 0
            /\ sp.kind # "ok" => sp.chg = NoChange}

NoStream == [ntok |-> 0, nin |-> 0, nout |-> 0, chg |-> NoChange, kind |-> "none"]

\* the 4 bytes of a key index, big-endian
KeyBytes(k) ==
    <<(k \div 16777216) % 256, (k \div 65536) % 256, (k \div 256) % 256, k % 256>>

RECURSIVE Concat(_, _)
Concat(f, n) == IF n = 0 THEN <<>> ELSE Concat(f, n - 1) \o f[n - 1]

\* the script of a pay-to-key-hash output
P2PKHScript(hash) == <<118, 169, 20>> \o hash \o <<136, 172>>

\* the key the wallet owns and sends change to
WALLET_KEY == 5

OutputBytes(sp, j) ==
    LET hash == IF sp.chg.has /\ sp.chg.idx = j
                THEN Hash160OfKey(WALLET_KEY) ELSE Hash160OfKey(100 + j)
        value == IF sp.kind = "val8"
                 THEN <<255, 255, 255, 255, 255, 248, 94, 224>>
                 ELSE <<0, 7, 161, 32 + j>>
        script == IF sp.kind = "bad_script" THEN <<117>> \o Tail(P2PKHScript(hash))
                  ELSE IF sp.kind = "short_script" THEN SubSeq(P2PKHScript(hash), 1, 24)
                  ELSE IF sp.kind = "long_script" THEN P2PKHScript(hash) \o <<106>>
                  ELSE IF sp.kind = "bad_tail" THEN SubSeq(P2PKHScript(hash), 1, 24) \o <<173>>
                  ELSE P2PKHScript(hash)
    IN  value \o <<0>> \o <<0, Len(script)>> \o script

InputBytes(sp) == Rep(32, 34) \o <<0>> \o <<0, IF sp.kind = "bad_input" THEN 1 ELSE 0>>

ChangeInfoBytes(chg) == IF chg.has THEN <<1, chg.idx>> \o KeyBytes(chg.key) ELSE <<0>>

\* the signable payload: header, tokens, inputs, outputs
TxBytes(sp) ==
    <<0, 1, sp.ntok, sp.nin, sp.nout>>
        \o Concat([i \in 0..sp.ntok |-> Rep(TOKEN_UID_LEN, 17)], sp.ntok)
        \o Concat([i \in 0..sp.nin |-> InputBytes(sp)], sp.nin)
        \o Concat([j \in 0..sp.nout |-> OutputBytes(sp, j)], sp.nout)
        \o (IF sp.kind = "trailing" THEN <<9>> ELSE <<>>)

StreamBytes(sp) == ChangeInfoBytes(sp.chg) \o TxBytes(sp)

\* a stream the specification calls valid: well-formed elements, and a
\* change declaration (if any) that names an existing output paying to the
\* declared key
ValidStream(sp) ==
    /\ sp.kind \in {"ok", "val8"}
    /\ sp.chg.has => (sp.chg.idx < sp.nout /\ sp.chg.key = WALLET_KEY)

\* the indexes 0..n-1 in ascending order, without the change index
RECURSIVE ReviewList(_, _, _)
ReviewList(has, idx, n) ==
    IF n = 0 THEN <<>>
    ELSE ReviewList(has, idx, n - 1) \o (IF has /\ idx = n - 1 THEN <<>> ELSE <<n - 1>>)

\* the outputs a stream shows to the operator
ReviewIndexes(sp) == ReviewList(sp.chg.has, sp.chg.idx, sp.nout)

NoHost == [sp |-> NoStream, pos |-> 0, pure |-> FALSE, failed |-> FALSE]


(***************************************************************************)
(* Steps.  Every handler yields an outcome record; Commit installs it.     *)
(***************************************************************************)
EvBase(op) ==
    [op |-> op, pre_state |-> ctx.state, decode |-> 0, short |-> FALSE, kept |-> TRUE,
     exhausted |-> FALSE, buflen_at |-> 0, derives |-> 0, finalized |-> FALSE,
     first |-> FALSE, cont |-> FALSE, prev_decode |-> gh.last_decode,
     spurious |-> FALSE, fed |-> FALSE, unsigned |-> ctx.sighash_all.n = 0]

\* what a decode adds to the step record
EvDecode(e, d) ==
    [e EXCEPT !.decode = d.result, !.short = d.short, !.kept = d.kept,
              !.exhausted = d.exhausted, !.buflen_at = d.buflen_at,
              !.derives = @ + d.verifies]

GhDecode(g, d) ==
    [g EXCEPT !.surfaced = IF d.result = TX_STATE_READY /\ ~d.crash
                           THEN Append(@, d.c.decoded_output.index) ELSE @,
              !.verified = @ \o d.skipped,
              !.consumed = @ \o d.consumed,
              !.last_decode = d.result]

NewSession ==
    [surfaced |-> <<>>, verified |-> <<>>, last_decode |-> 0, payload |-> <<>>,
     consumed |-> <<>>]

\* a first payload without its change declaration: 1 byte, or 6 when the
\* first byte is not zero
StripDeclaration(data) ==
    IF data[1] = 0 THEN SubSeq(data, 2, Len(data)) ELSE SubSeq(data, 7, Len(data))

\* the history at the first chunk of a session: the payload received and the
\* 5 header bytes read from it
FirstHistory(data, offset) ==
    [NewSession EXCEPT !.payload = StripDeclaration(data),
                       !.consumed = SubSeq(data, offset + 1, offset + 5)]

\* the state a handler leaves: ui_idle() is ZeroCtx with the "idle" screen
Outcome(c, scr, pending, resp, e, g, crashed) ==
    [ctx |-> c, screen |-> scr, pending |-> pending, resp |-> resp, ev |-> e, gh |-> g,
     fault |-> crashed]

\* an outcome of a step that ran decode_next_element with result d
DecodeOutcome(c, scr, pending, resp, e, g, d) ==
    Outcome(c, scr, pending, resp, EvDecode(e, d), GhDecode(g, d), d.crash)

\* variant: a transaction that ends with nothing shown is refused
HandlerSwitchRefusesEmptyReview(d, e, g) ==
    IF d.crash THEN DecodeOutcome(d.c, screen, FALSE, NoResponse, e, g, d)
    ELSE IF d.result = TX_STATE_ERR
    THEN DecodeOutcome(ZeroCtx, "idle", FALSE, StatusOnly(SW_INVALID_PARAM), e, g, d)
    ELSE IF d.result = TX_STATE_PARTIAL
    THEN DecodeOutcome(d.c, screen, FALSE, StatusOnly(SW_OK), e, g, d)
    ELSE IF d.result = TX_STATE_READY
    THEN DecodeOutcome(PrepareDisplayOutput(d.c), "compare", TRUE, NoResponse, e, g, d)
    ELSE IF d.result = TX_STATE_FINISHED
    THEN IF g.surfaced = <<>>
         THEN DecodeOutcome(ZeroCtx, "idle", FALSE, StatusOnly(SW_INVALID_PARAM), e, g, d)
         ELSE DecodeOutcome(SetLine1(d.c, "Send"), "confirm", TRUE, NoResponse, e, g, d)
    ELSE DecodeOutcome(d.c, screen, FALSE, NoResponse, e, g, d)

\* the switch on decode_next_element() at the end of handle_sign_tx (p1 = 0)
HandlerSwitch(d, e, g) ==
    IF d.crash THEN DecodeOutcome(d.c, screen, FALSE, NoResponse, e, g, d)
    ELSE IF d.result = TX_STATE_ERR
    THEN DecodeOutcome(ZeroCtx, "idle", FALSE, StatusOnly(SW_INVALID_PARAM), e, g, d)
    ELSE IF d.result = TX_STATE_PARTIAL
    THEN DecodeOutcome(d.c, screen, FALSE, StatusOnly(SW_OK), e, g, d)
    ELSE IF d.result = TX_STATE_READY
    THEN DecodeOutcome(PrepareDisplayOutput(d.c), "compare", TRUE, NoResponse, e, g, d)
    ELSE IF d.result = TX_STATE_FINISHED
    THEN DecodeOutcome(SetLine1(d.c, "Send"), "confirm", TRUE, NoResponse, e, g, d)
    ELSE DecodeOutcome(d.c, screen, FALSE, NoResponse, e, g, d)

HandlerDecode(c, e, g) == HandlerSwitch(DecodeNextElement(c), e, g)

\* parse_change_output_info(in, inlen): exc is the exception thrown, if any
ParseChangeOutputInfo(in, inlen) ==
    IF AssertLengthFails(1, inlen)
    THEN [exc |-> SW_INVALID_PARAM, has |-> FALSE, idx |-> 0, key |-> 0, size |-> 0]
    ELSE IF in[1] > 0
    THEN IF AssertLengthFails(5, inlen - 1)
         THEN [exc |-> SW_INVALID_PARAM, has |-> TRUE, idx |-> 0, key |-> 0, size |-> 0]
         ELSE [exc |-> 0, has |-> TRUE, idx |-> in[2], key |-> U4BE(in, 2), size |-> 6]
    ELSE [exc |-> 0, has |-> FALSE, idx |-> 0, key |-> 0, size |-> 1]

\* variant: the main loop resets the state field only
MainLoopCatchResetsStateOnly(c, sw, e, g) ==
    Outcome(IF sw # SW_OK THEN [c EXCEPT !.state = UNINITIALIZED] ELSE c,
            screen, FALSE, StatusOnly(sw), e, g, FALSE)

\* variant: the main loop sends the status word and leaves the context as it is
MainLoopCatchKeepsContext(c, sw, e, g) ==
    Outcome(c, screen, FALSE, StatusOnly(sw), e, g, FALSE)

\* an exception that reaches the main loop: the context is zeroed unless the
\* exception is SW_OK, the screen is left as it is, the status word is sent
MainLoopCatch(c, sw, e, g) ==
    Outcome(IF sw # SW_OK THEN ZeroCtx ELSE c, screen, FALSE, StatusOnly(sw), e, g, FALSE)

\* handle_sign_tx, p1 = 0, state == UNINITIALIZED: the first chunk, info being
\* what parse_change_output_info did.  c0 and c1 are the context when
\* parse_change_output_info and the assert_length on the header throw.
FirstChunkParsed(data, info) ==
    LET e0 == [EvBase("data") EXCEPT !.first = TRUE]
        e == [e0 EXCEPT !.fed = TRUE]
        offset == info.size
        c0 == [ctx EXCEPT !.state = RECEIVING_DATA,
                          !.buffer_len = 0,
                          !.has_change_output = info.has,
                          !.change_output_index = 0,
                          !.change_key_index = 0,
                          !.current_output = 0,
                          !.display_index = 0,
                          !.sighash_all = ZeroDigest,
                          !.sha256 = <<>>]
        c1 == [c0 EXCEPT !.change_output_index = info.idx,
                         !.change_key_index = info.key,
                         !.sha256 = SubSeq(data, offset + 1, Len(data))]
        c == [c1 EXCEPT !.buffer_len = Len(data) - (offset + 5),
                        !.remaining_tokens = data[offset + 3],
                        !.remaining_inputs = data[offset + 4],
                        !.outputs_len = data[offset + 5],
                        !.buffer = MemcpyAt(@, 0, SubSeq(data, offset + 6, Len(data)))]
    IN  IF info.exc # 0 THEN MainLoopCatch(c0, info.exc, e0, NewSession)
        ELSE IF AssertLengthFails(5, Len(data) - offset)
        THEN MainLoopCatch(c1, SW_INVALID_PARAM, e, NewSession)
        ELSE HandlerDecode(c, e, FirstHistory(data, offset))

FirstChunk(data) == FirstChunkParsed(data, ParseChangeOutputInfo(data, Len(data)))

\* handle_sign_tx, p1 = 0, state == RECEIVING_DATA: more data
NextChunk(data) ==
    LET e == [EvBase("data") EXCEPT !.cont = TRUE, !.fed = TRUE]
        c == [ctx EXCEPT !.sha256 = @ \o data,
                         !.buffer = MemcpyAt(@, ctx.buffer_len, data),
                         !.buffer_len = @ + Len(data)]
    IN  IF ctx.buffer_len + Len(data) > BUFFER_SIZE
        THEN Outcome(c, screen, FALSE, NoResponse, e, gh, TRUE)
        ELSE HandlerDecode(c, e, [gh EXCEPT !.payload = @ \o data])

\* variant: no check of the state before taking the bytes
SignTxDataUnguarded(data) ==
    IF ctx.state = UNINITIALIZED THEN FirstChunk(data) ELSE NextChunk(data)

\* handle_sign_tx, p1 = 0
SignTxData(data) ==
    IF ctx.state = USER_APPROVED
    THEN Outcome(ZeroCtx, "idle", FALSE, StatusOnly(SW_INVALID_PARAM), EvBase("data"), gh, FALSE)
    ELSE IF ctx.state = UNINITIALIZED THEN FirstChunk(data)
    ELSE NextChunk(data)

\* variant: one signature per approval, the session is reset after it
SignTxSignOnce(data) ==
    LET e == EvBase("sign")
        key_index == U4BE(data, 0)
        first == ctx.sighash_all.b0 = 0
        c == IF first
             THEN [ctx EXCEPT !.sighash_all = Digest(ctx.sha256, 2), !.sha256 = <<>>]
             ELSE ctx
    IN  IF ctx.state # USER_APPROVED
        THEN Outcome(ZeroCtx, "idle", FALSE, StatusOnly(SW_DEVELOPER_ERR), e, gh, FALSE)
        ELSE Outcome(ZeroCtx, "idle", FALSE,
                     [sw |-> SW_OK, sig |-> EcdsaSign(key_index, c.sighash_all)],
                     [e EXCEPT !.derives = 1, !.finalized = first], gh, FALSE)

\* variant: signs in any state
SignTxSignUnguarded(data) ==
    LET e == EvBase("sign")
        key_index == U4BE(data, 0)
        first == ctx.sighash_all.b0 = 0
        c == IF first
             THEN [ctx EXCEPT !.sighash_all = Digest(ctx.sha256, 2), !.sha256 = <<>>]
             ELSE ctx
    IN  Outcome(c, screen, FALSE,
                [sw |-> SW_OK, sig |-> EcdsaSign(key_index, c.sighash_all)],
                [e EXCEPT !.derives = 1, !.finalized = first], gh, FALSE)

\* variant: refuses an early signing request but keeps the session
SignTxSignKeepsSession(data) ==
    LET e == EvBase("sign")
        key_index == U4BE(data, 0)
        first == ctx.sighash_all.b0 = 0
        c == IF first
             THEN [ctx EXCEPT !.sighash_all = Digest(ctx.sha256, 2), !.sha256 = <<>>]
             ELSE ctx
    IN  IF ctx.state # USER_APPROVED
        THEN Outcome(ctx, screen, FALSE, StatusOnly(SW_DEVELOPER_ERR), e, gh, FALSE)
        ELSE Outcome(c, screen, FALSE,
                     [sw |-> SW_OK, sig |-> EcdsaSign(key_index, c.sighash_all)],
                     [e EXCEPT !.derives = 1, !.finalized = first], gh, FALSE)

\* handle_sign_tx, p1 = 1
SignTxSign(data) ==
    LET e == EvBase("sign")
        key_index == U4BE(data, 0)
        first == ctx.sighash_all.b0 = 0
        c == IF first
             THEN [ctx EXCEPT !.sighash_all = Digest(ctx.sha256, 2), !.sha256 = <<>>]
             ELSE ctx
    IN  IF ctx.state # USER_APPROVED
        THEN Outcome(ZeroCtx, "idle", FALSE, StatusOnly(SW_DEVELOPER_ERR), e, gh, FALSE)
        ELSE Outcome(c, screen, FALSE,
                     [sw |-> SW_OK, sig |-> EcdsaSign(key_index, c.sighash_all)],
                     [e EXCEPT !.derives = 1, !.finalized = first], gh, FALSE)

\* variant: the completion request resets the state field and leaves the
\* buffer, the counters, the change declaration and the digests
SignTxDoneResetsStateOnly ==
    Outcome([ctx EXCEPT !.state = UNINITIALIZED], "idle", FALSE, StatusOnly(SW_OK),
            EvBase("done"), gh, FALSE)

\* variant: the completion request is acknowledged and the session is kept
SignTxDoneKeepsSession ==
    Outcome(ctx, screen, FALSE, StatusOnly(SW_OK), EvBase("done"), gh, FALSE)

\* handle_sign_tx, p1 = 2
SignTxDone ==
    Outcome(ZeroCtx, "idle", FALSE, StatusOnly(SW_OK), EvBase("done"), gh, FALSE)

\* the switch of ui_sign_tx_compare_button on decode_next_element()
CompareSwitch(d, e, g) ==
    IF d.crash THEN DecodeOutcome(d.c, screen, reply_pending, NoResponse, e, g, d)
    ELSE IF d.result = TX_STATE_ERR
    THEN DecodeOutcome(ZeroCtx, "idle", FALSE, StatusOnly(SW_INVALID_PARAM),
                       [e EXCEPT !.spurious = ~reply_pending], g, d)
    ELSE IF d.result = TX_STATE_PARTIAL
    THEN DecodeOutcome(d.c, screen, FALSE, StatusOnly(SW_OK),
                       [e EXCEPT !.spurious = ~reply_pending], g, d)
    ELSE IF d.result = TX_STATE_READY
    THEN DecodeOutcome(PrepareDisplayOutput(d.c), screen, reply_pending, NoResponse, e, g, d)
    ELSE IF d.result = TX_STATE_FINISHED
    THEN DecodeOutcome(SetLine1(d.c, "Send"), "confirm", reply_pending, NoResponse, e, g, d)
    ELSE DecodeOutcome(d.c, screen, reply_pending, NoResponse, e, g, d)

\* ui_sign_tx_compare_button, both buttons released: next output
CompareProceed ==
    CompareSwitch(DecodeNextElement([ctx EXCEPT !.display_index = 0]), EvBase("both"), gh)

\* ui_sign_tx_compare_button, left and right: scroll line2 over info
ScrollEnd(c) == Len(c.info) - SCREEN_LEN

\* variant: the right button scrolls on at the end of the text
CompareScrollPastEnd(dir) ==
    LET c == IF dir = "left"
             THEN IF ctx.display_index # 0
                  THEN [ctx EXCEPT !.display_index = @ - 1] ELSE ctx
             ELSE [ctx EXCEPT !.display_index = (@ + 1) % 256]
    IN  Outcome(c, screen, reply_pending, NoResponse, EvBase(dir), gh, FALSE)

CompareScroll(dir) ==
    LET c == IF dir = "left"
             THEN IF ctx.display_index # 0
                  THEN [ctx EXCEPT !.display_index = @ - 1] ELSE ctx
             ELSE IF ctx.display_index # ScrollEnd(ctx)
                  THEN [ctx EXCEPT !.display_index = (@ + 1) % 256] ELSE ctx
    IN  Outcome(c, screen, reply_pending, NoResponse, EvBase(dir), gh, FALSE)

\* variant: the buttons of the confirm screen act after the approval too
ConfirmButtonAfterApproval(dir) ==
    IF dir = "left"
    THEN Outcome(ZeroCtx, "idle", FALSE, StatusOnly(SW_USER_REJECTED),
                 [EvBase("reject") EXCEPT !.spurious = ~reply_pending], gh, FALSE)
    ELSE Outcome(SetLine1([ctx EXCEPT !.state = USER_APPROVED], "Processing"),
                 screen, FALSE, StatusOnly(SW_OK),
                 [EvBase("approve") EXCEPT !.spurious = ~reply_pending], gh, FALSE)

\* variant: the reject button sends its status and keeps the session
ConfirmButtonRejectKeeps(dir) ==
    IF ctx.state = USER_APPROVED
    THEN Outcome(ctx, screen, reply_pending, NoResponse, EvBase("ignored"), gh, FALSE)
    ELSE IF dir = "left"
    THEN Outcome(ctx, screen, FALSE, StatusOnly(SW_USER_REJECTED),
                 [EvBase("reject") EXCEPT !.spurious = ~reply_pending], gh, FALSE)
    ELSE Outcome(SetLine1([ctx EXCEPT !.state = USER_APPROVED], "Processing"),
                 screen, FALSE, StatusOnly(SW_OK),
                 [EvBase("approve") EXCEPT !.spurious = ~reply_pending], gh, FALSE)

\* ui_sign_tx_confirm_button
ConfirmButton(dir) ==
    IF ctx.state = USER_APPROVED
    THEN Outcome(ctx, screen, reply_pending, NoResponse, EvBase("ignored"), gh, FALSE)
    ELSE IF dir = "left"
    THEN Outcome(ZeroCtx, "idle", FALSE, StatusOnly(SW_USER_REJECTED),
                 [EvBase("reject") EXCEPT !.spurious = ~reply_pending], gh, FALSE)
    ELSE Outcome(SetLine1([ctx EXCEPT !.state = USER_APPROVED], "Processing"),
                 screen, FALSE, StatusOnly(SW_OK),
                 [EvBase("approve") EXCEPT !.spurious = ~reply_pending], gh, FALSE)


(***************************************************************************)
(* Actions                                                                 *)
(***************************************************************************)
\* the host gives up a stream when it is answered with an error status
HostAfter(h, resp) ==
    IF resp.sw \notin {0, SW_OK} THEN [h EXCEPT !.failed = TRUE, !.pos = 0] ELSE h

\* the history of a session ends with the session
HistoryAfter(c, g) == IF c.state = UNINITIALIZED THEN NewSession ELSE g

Commit(o, h) ==
    /\ ctx' = o.ctx
    /\ screen' = o.screen
    /\ reply_pending' = o.pending
    /\ response' = o.resp
    /\ ev' = o.ev
    /\ gh' = HistoryAfter(o.ctx, o.gh)
    /\ fault' = o.fault
    /\ host' = HostAfter(h, o.resp)
    /\ UNCHANGED short_enums

\* the host may send a request when none is outstanding
HostMaySend == ~fault /\ ~reply_pending

\* the host starts a stream when it has none in progress: the last one was
\* ended with p1 = 2, was refused, or was sent whole and answered
HostIdle ==
    \/ host.sp = NoStream
    \/ host.failed
    \/ host.pos = Len(StreamBytes(host.sp)) /\ response.sw = SW_OK

\* the next n bytes of a stream after position pos
NextBytes(bytes, pos, n) == SubSeq(bytes, pos + 1, Min(pos + n, Len(bytes)))

HostStartWith(sp, data) ==
    Commit(SignTxData(data),
           [sp |-> sp, pos |-> Len(data), pure |-> ctx.state = UNINITIALIZED,
            failed |-> FALSE])

\* p1 = 0 with the first bytes of a new stream
HostStart ==
    \E sp \in StreamParams, n \in ChunkSizes :
        /\ HostMaySend
        /\ HostIdle
        /\ HostStartWith(sp, NextBytes(StreamBytes(sp), 0, n))

HostDataWith(data) ==
    Commit(SignTxData(data), [host EXCEPT !.pos = @ + Len(data)])

\* p1 = 0 with the next bytes of the stream
HostData ==
    \E n \in ChunkSizes :
        /\ HostMaySend
        /\ ~HostIdle
        /\ HostDataWith(NextBytes(StreamBytes(host.sp), host.pos, n))

\* p1 = 1 with a key index
HostSign ==
    \E k \in SignKeys :
        /\ HostMaySend
        /\ Commit(SignTxSign(KeyBytes(k)), NoHost)

\* p1 = 2
HostDone ==
    /\ HostMaySend
    /\ Commit(SignTxDone, NoHost)

\* the status words hathor_main throws for a request whose class byte is not
\* CLA (0x6E00) and for an instruction that has no handler (0x6D00)
UnhandledStatus == {28160, 27904}

\* a request that reaches no handler: the exception is caught by the main loop
HostOther ==
    \E sw \in UnhandledStatus :
        /\ HostMaySend
        /\ Commit(MainLoopCatch(ctx, sw, EvBase("other"), gh), host)

CompareLeft ==
    /\ ~fault /\ screen = "compare"
    /\ Commit(CompareScroll("left"), host)

CompareRight ==
    /\ ~fault /\ screen = "compare"
    /\ Commit(CompareScroll("right"), host)

CompareBoth ==
    /\ ~fault /\ screen = "compare"
    /\ Commit(CompareProceed, host)

ConfirmLeft ==
    /\ ~fault /\ screen = "confirm"
    /\ Commit(ConfirmButton("left"), [host EXCEPT !.pure = FALSE])

ConfirmRight ==
    /\ ~fault /\ screen = "confirm"
    /\ Commit(ConfirmButton("right"), [host EXCEPT !.pure = FALSE])

BootEvent ==
    [op |-> "boot", pre_state |-> UNINITIALIZED, decode |-> 0, short |-> FALSE,
     kept |-> TRUE, exhausted |-> FALSE, buflen_at |-> 0, derives |-> 0,
     finalized |-> FALSE, first |-> FALSE, cont |-> FALSE, prev_decode |-> 0,
     spurious |-> FALSE, fed |-> FALSE, unsigned |-> TRUE]

\* variant: the transport is reset and the context is left as it is
IoResetKeepsContext ==
    /\ screen' = "idle"
    /\ reply_pending' = FALSE
    /\ response' = NoResponse
    /\ fault' = FALSE
    /\ host' = NoHost
    /\ gh' = HistoryAfter(ctx, gh)
    /\ ev' = [BootEvent EXCEPT !.pre_state = ctx.state]
    /\ UNCHANGED <<ctx, short_enums>>

\* EXCEPTION_IO_RESET, or power-up: main() runs ui_idle() and hathor_main()
\* zeroes the context again
IoReset ==
    /\ ctx' = ZeroCtx
    /\ screen' = "idle"
    /\ reply_pending' = FALSE
    /\ response' = NoResponse
    /\ fault' = FALSE
    /\ host' = NoHost
    /\ gh' = NewSession
    /\ ev' = [BootEvent EXCEPT !.pre_state = ctx.state]
    /\ UNCHANGED short_enums

Init ==
    /\ ctx = ZeroCtx
    /\ screen = "idle"
    /\ reply_pending = FALSE
    /\ response = NoResponse
    /\ short_enums \in BOOLEAN
    /\ fault = FALSE
    /\ host = NoHost
    /\ gh = NewSession
    /\ ev = BootEvent

Next ==
    \/ HostStart
    \/ HostData
    \/ HostSign
    \/ HostDone
    \/ HostOther
    \/ CompareLeft
    \/ CompareRight
    \/ CompareBoth
    \/ ConfirmLeft
    \/ ConfirmRight
    \/ IoReset

Spec == Init /\ [][Next]_vars

(***************************************************************************)
(* format_value on its own: a decoded output with any of a set of values   *)
(* is prepared for display.  The values are all amounts up to              *)
(* MaxSmallValue, the powers of ten with their neighbours, and the ends of *)
(* the 32-bit and 64-bit ranges.                                           *)
(***************************************************************************)
MaxSmallValue == 130

\* a number below 2^31 as a uint64_t
ToValue(n) == <<0, 0, n \div LIMB, n % LIMB>>

FormatValues ==
    {ToValue(n) : n \in 0..MaxSmallValue}
        \cup {ToValue(10 ^ p + d) : p \in 3..9, d \in {-1, 0, 1}}
        \cup {ToValue(500000), ToValue(123456789), ToValue(2147483647),
              <<0, 0, LIMB - 1, LIMB - 1>>, <<0, 1, 0, 0>>,
              <<LIMB \div 2, 0, 0, 0>>, <<LIMB - 1, LIMB - 1, LIMB - 1, LIMB - 1>>,
              <<LIMB - 1, LIMB - 1, LIMB - 1, LIMB - 100>>}

FormatInit ==
    /\ \E v \in FormatValues : ctx = [ZeroCtx EXCEPT !.decoded_output.value = v]
    /\ screen = "idle"
    /\ reply_pending = FALSE
    /\ response = NoResponse
    /\ short_enums \in BOOLEAN
    /\ fault = FALSE
    /\ host = NoHost
    /\ gh = NewSession
    /\ ev = BootEvent

\* prepare_display_output(ctx->decoded_output)
FormatStep ==
    /\ ctx.info = <<>>
    /\ ctx' = PrepareDisplayOutput(ctx)
    /\ ev' = [BootEvent EXCEPT !.op = "format"]
    /\ UNCHANGED <<screen, reply_pending, response, short_enums, fault, host, gh>>

FormatNext == FormatStep

FormatSpec == FormatInit /\ [][FormatNext]_vars

(***************************************************************************)
(* A cooperating host and operator: the host sends one valid transaction,  *)
(* more of it whenever SW_OK asks for more, then signing requests and the  *)
(* completion request; the operator passes every output and confirms.     *)
(***************************************************************************)
LiveStreams == {sp \in StreamParams : ValidStream(sp)}

\* p1 = 0 with a first chunk that holds the change declaration and the header
LiveStart ==
    \E sp \in LiveStreams, n \in ChunkSizes :
        /\ HostMaySend
        /\ host.sp = NoStream
        /\ n >= Len(ChangeInfoBytes(sp.chg)) + 5
        /\ HostStartWith(sp, NextBytes(StreamBytes(sp), 0, n))

\* p1 = 0 with more bytes, when the device answered SW_OK to ask for them
LiveData ==
    \E n \in ChunkSizes :
        /\ HostMaySend
        /\ host.sp # NoStream
        /\ ctx.state = RECEIVING_DATA
        /\ response.sw = SW_OK
        /\ host.pos < Len(StreamBytes(host.sp))
        /\ HostDataWith(NextBytes(StreamBytes(host.sp), host.pos, n))

\* p1 = 1 once the approval was received, and once more after a signature
LiveSign ==
    \E k \in SignKeys :
        /\ HostMaySend
        /\ host.sp # NoStream
        /\ ctx.state = USER_APPROVED
        /\ ev.op = "approve" \/ (ev.op = "sign" /\ ev.unsigned)
        /\ Commit(SignTxSign(KeyBytes(k)), host)

\* p1 = 2 once a signature was received
LiveDone ==
    /\ HostMaySend
    /\ host.sp # NoStream
    /\ ev.op = "sign"
    /\ response.sig # NoSignature
    /\ Commit(SignTxDone, NoHost)

LiveNext ==
    \/ LiveStart
    \/ LiveData
    \/ LiveSign
    \/ LiveDone
    \/ CompareBoth
    \/ ConfirmRight

LiveSpec ==
    /\ Init
    /\ [][LiveNext]_vars
    /\ WF_vars(LiveData)
    /\ WF_vars(LiveSign)
    /\ WF_vars(LiveDone)
    /\ WF_vars(CompareBoth)
    /\ WF_vars(ConfirmRight)


(***************************************************************************)
(* Properties                                                              *)
(***************************************************************************)

\* C1: a response carries signature bytes only when it is produced by a step
\* taken in state USER_APPROVED; none is produced in UNINITIALIZED or
\* RECEIVING_DATA.
C1_SignatureOnlyWhenApproved ==
    response.sig # NoSignature =>
        /\ ev.pre_state = USER_APPROVED
        /\ ev.op = "sign"

C1_Witness ==
    /\ response.sig # NoSignature
    /\ ev.op = "sign"
    /\ ev.pre_state = USER_APPROVED

\* C2: a signing request (p1 = 1) received in a state other than
\* USER_APPROVED is answered with SW_DEVELOPER_ERR alone, derives no key,
\* finalizes no digest and leaves the session zeroed, in UNINITIALIZED.
C2_EarlySignRefused ==
    (ev.op = "sign" /\ ev.pre_state # USER_APPROVED) =>
        /\ response = StatusOnly(SW_DEVELOPER_ERR)
        /\ ev.derives = 0
        /\ ~ev.finalized
        /\ ctx = ZeroCtx
        /\ screen = "idle"

C2_Witness ==
    /\ ev.op = "sign"
    /\ ev.pre_state = RECEIVING_DATA
    /\ response.sw = SW_DEVELOPER_ERR

\* C3: a data request (p1 = 0) received in USER_APPROVED is answered with
\* SW_INVALID_PARAM; its payload is neither hashed nor put in the buffer and
\* the session is zeroed, so the approval is gone.
C3_DataAfterApprovalRefused ==
    (ev.op = "data" /\ ev.pre_state = USER_APPROVED) =>
        /\ response = StatusOnly(SW_INVALID_PARAM)
        /\ ~ev.fed
        /\ ctx = ZeroCtx
        /\ screen = "idle"

C3_Witness ==
    /\ ev.op = "data"
    /\ ev.pre_state = USER_APPROVED
    /\ response.sw = SW_INVALID_PARAM
    /\ ctx.state = UNINITIALIZED

\* the host is sending a valid stream to a device that was idle when the
\* stream began, and nothing but data requests and output reviews happened
HostSendsValid == host.sp # NoStream /\ host.pure /\ ValidStream(host.sp)

\* the last step was a first chunk refused for not holding the whole header
HeaderRefused == ev.first /\ ev.decode = 0 /\ host.failed

\* C4: however a valid stream is cut into chunks (the first one holding the
\* header), it is never refused, and once all of it is sent and every
\* surfaced output was stepped through, the confirm screen is up with the
\* same outputs surfaced and the same bytes hashed as for any other cut.
C4_ChunkInvariance ==
    (HostSendsValid /\ ~HeaderRefused) =>
        /\ ~host.failed
        /\ ~fault
        /\ (host.pos = Len(StreamBytes(host.sp)) /\ screen # "compare") =>
                /\ screen = "confirm"
                /\ gh.surfaced = ReviewIndexes(host.sp)
                /\ ctx.sha256 = TxBytes(host.sp)

C6_ChangeIndexOutOfRangeRejected ==
    (ctx.has_change_output /\ ctx.change_output_index >= ctx.outputs_len) =>
        /\ gh.surfaced = <<>>
        /\ screen # "confirm"
        /\ ctx.state # USER_APPROVED

\* C7: an output at the declared change index whose recipient hash is not
\* the hash160 of the key of the declared key index is never passed over as
\* change: the decode ends in TX_STATE_ERR instead.
C7_ChangeMismatchRejected ==
    \A i \in 1..Len(gh.verified) :
        gh.verified[i].pubkey_hash = Hash160OfKey(gh.verified[i].key_index)

\* C8: when the buffer holds fewer bytes than the next element needs, be it
\* a token, an input or an output, the decode returns TX_STATE_PARTIAL and
\* leaves buffer, buffer_len, remaining_tokens, remaining_inputs and
\* current_output as they were.
C8_ShortElementIsPartial ==
    ev.short => (ev.decode = TX_STATE_PARTIAL /\ ev.kept)

C10_FinishedOnlyWhenAllConsumed ==
    /\ ev.exhausted =>
            ev.decode = (IF ev.buflen_at = 0 THEN TX_STATE_FINISHED ELSE TX_STATE_ERR)
    /\ ev.decode = TX_STATE_FINISHED =>
            /\ ev.exhausted
            /\ ev.buflen_at = 0
            /\ Exhausted(ctx)
            /\ ctx.buffer_len = 0

C10_Witness ==
    /\ ev.op = "both"
    /\ ev.exhausted
    /\ ev.decode = TX_STATE_FINISHED
    /\ screen = "confirm"

\* C11: every response with a status other than SW_OK leaves the session
\* context zeroed, in UNINITIALIZED, whether it is sent by the APDU handler,
\* by a button handler or by the main loop for a thrown exception; and a
\* decode that ends in TX_STATE_ERR is answered with SW_INVALID_PARAM from
\* the APDU handler and from the button handler alike.
C11_ErrorResponseZeroesSession ==
    /\ response.sw \notin {0, SW_OK} =>
            /\ ctx = ZeroCtx
            /\ ctx.state = UNINITIALIZED
    /\ ev.decode = TX_STATE_ERR => response = StatusOnly(SW_INVALID_PARAM)

\* a decoder error found by the button handler
C11_Witness ==
    /\ ev.op = "both"
    /\ ev.decode = TX_STATE_ERR
    /\ response = StatusOnly(SW_INVALID_PARAM)
    /\ ctx = ZeroCtx

\* a step that shows what the reject button does and what follows from it
C12_RejectStep ==
    /\ ev'.op = "reject" =>
            /\ response' = StatusOnly(SW_USER_REJECTED)
            /\ ctx' = ZeroCtx
            /\ screen' = "idle"
    /\ (response'.sw = SW_USER_REJECTED /\ response' # response) =>
            /\ ev'.op = "reject"
            /\ screen = "confirm"
    /\ ctx.state # USER_APPROVED => response'.sig = NoSignature
    /\ (ctx.state # USER_APPROVED /\ ctx'.state = USER_APPROVED) =>
            /\ ev'.op = "approve"
            /\ screen = "confirm"

\* C12: the left button on the confirm screen sends SW_USER_REJECTED, a
\* status no other step sends, and zeroes the session; from a session that
\* is not approved, as the one left by a rejection, no step returns a
\* signature, and only a new confirmation by the operator approves again.
C12_OperatorReject == [][C12_RejectStep]_vars

C12_Witness ==
    /\ ev.op = "reject"
    /\ ev.pre_state = RECEIVING_DATA
    /\ response = StatusOnly(SW_USER_REJECTED)
    /\ ctx.state = UNINITIALIZED

\* a signing request served in an approved session
C13_SignStep ==
    (ctx.state = USER_APPROVED /\ ev'.op = "sign" /\ response'.sig # NoSignature) =>
        IF ctx.sighash_all.n = 0
        THEN /\ ev'.finalized
             /\ ctx'.sighash_all = Digest(ctx.sha256, 2)
             /\ response'.sig.digest = ctx'.sighash_all
        ELSE /\ ~ev'.finalized
             /\ ctx'.sighash_all = ctx.sighash_all
             /\ response'.sig.digest = ctx.sighash_all

\* C13: in an approved session the first signing request finalizes the
\* accumulator into the double SHA-256, and every later signing request
\* signs that same value without finalizing again, whatever its bytes are.
C13_FinalizedOnce == [][C13_SignStep]_vars

\* C14: the bytes in the SHA-256 accumulator are the p1 = 0 payloads of the
\* session in arrival order without the 1-byte or 6-byte change declaration;
\* in an approved session these are the 5 header bytes and the bytes the
\* decoder consumed; and a digest that is finalized is the double SHA-256 of
\* exactly these bytes.
C14_DigestCoversPayload ==
    /\ (ctx.state # UNINITIALIZED /\ ctx.sighash_all.n = 0) =>
            ctx.sha256 = gh.payload
    /\ ctx.state = USER_APPROVED => gh.payload = gh.consumed
    /\ ev.finalized => ctx.sighash_all = Digest(gh.payload, 2)

\* C15: a completion request (p1 = 2) is answered with SW_OK and no
\* signature in every session state, USER_APPROVED without any signature
\* made included; it leaves the context zeroed in UNINITIALIZED with the
\* idle screen, and the host can start a new transaction with a first chunk.
C15_DoneResetsSession ==
    ev.op = "done" =>
        /\ response = StatusOnly(SW_OK)
        /\ ctx = ZeroCtx
        /\ ctx.state = UNINITIALIZED
        /\ screen = "idle"
        /\ HostMaySend /\ HostIdle

\* completion of an approved session in which nothing was signed
C15_Witness ==
    /\ ev.op = "done"
    /\ ev.pre_state = USER_APPROVED
    /\ ev.unsigned
    /\ response = StatusOnly(SW_OK)
    /\ ctx.state = UNINITIALIZED

\* the host waits for a response that was not sent while the device waits
\* for a request
WaitingForEachOther ==
    /\ host.sp # NoStream
    /\ ev.op \in {"data", "sign", "done"}
    /\ response = NoResponse
    /\ ~reply_pending

\* the host was answered with an error status, or the device stopped
RefusedOrStopped == host.sp # NoStream /\ (host.failed \/ fault)

\* C16: with a host that sends a valid transaction and supplies data when
\* asked, and an operator who passes every output and confirms, the session
\* comes to the confirm screen with every output surfaced, is approved,
\* returns a signature and is back at idle after the completion request;
\* on the way the transaction is not refused and host and device never wait
\* for each other.
C16_SessionCompletes ==
    /\ (host.sp # NoStream) ~>
            (screen = "confirm" /\ gh.surfaced = ReviewIndexes(host.sp))
    /\ (host.sp # NoStream) ~> (ctx.state = USER_APPROVED)
    /\ (host.sp # NoStream) ~> (response.sig # NoSignature)
    /\ (host.sp # NoStream) ~> (ev.op = "done" /\ screen = "idle")
    /\ [](~WaitingForEachOther /\ ~RefusedOrStopped)

\* C17: the output under review is labelled "Output k/N", N being the number
\* of outputs other than the change output and k the 1-based position of the
\* output among them, so that the labels of a session run 1/N, 2/N, ..., N/N.
C17_LabelsRunFromOneToN ==
    (screen = "compare" /\ ctx.state = RECEIVING_DATA /\ ~fault) =>
        ctx.line1 = [text |-> "Output",
                     k |-> Len(gh.surfaced),
                     n |-> Len(ReviewList(ctx.has_change_output, ctx.change_output_index,
                                          ctx.outputs_len))]

\* the text format_value wrote behind the address and " HTR "
DisplayedValue == SubSeq(ctx.info, ADDRESS_B58_LEN + 6, Len(ctx.info))

\* n < 1000 in decimal, as it is, and with three digits
Decimal(n) ==
    IF n < 10 THEN <<Digit(n)>>
    ELSE IF n < 100 THEN <<Digit(n \div 10), Digit(n % 10)>>
    ELSE <<Digit(n \div 100), Digit((n \div 10) % 10), Digit(n % 10)>>

ThreeDigits(n) == <<Digit(n \div 100), Digit((n \div 10) % 10), Digit(n % 10)>>

\* a uint64_t in decimal with a comma before every group of three digits,
\* built group by group from the right
RECURSIVE Grouped(_)
Grouped(q) ==
    IF q[1] = 0 /\ q[2] = 0 /\ q[3] = 0 /\ q[4] < 1000 THEN Decimal(q[4])
    ELSE Grouped(DivLimbs(q, 1000, 0).q) \o <<",">> \o ThreeDigits(DivLimbs(q, 1000, 0).r)

\* the rendering the specification asks for
Rendering(v) ==
    Grouped(DivLimbs(v, 100, 0).q) \o <<".">>
        \o <<Digit(DivLimbs(v, 100, 0).r \div 10), Digit(DivLimbs(v, 100, 0).r % 10)>>

\* C18: format_value renders v / 100 in decimal with a comma between the
\* groups of three integer digits, then '.', then the two digits of v mod 100.
C18_FormatValueRendering ==
    ev.op = "format" => DisplayedValue = Rendering(ctx.decoded_output.value)

\* 500000 is shown as 5,000.00
C18_Witness ==
    /\ ev.op = "format"
    /\ ctx.decoded_output.value = ToValue(500000)
    /\ DisplayedValue = <<"5", ",", "0", "0", "0", ".", "0", "0">>

\* v * m + a in uint64_t, for small m and a
RECURSIVE MulAdd(_, _, _)
MulAdd(v, m, a) ==
    IF v = <<>> THEN <<>>
    ELSE MulAdd(SubSeq(v, 1, Len(v) - 1), m, (v[Len(v)] * m + a) \div LIMB)
            \o <<(v[Len(v)] * m + a) % LIMB>>

DigitValue(ch) == CHOOSE d \in 0..9 : Digit(d) = ch

\* a text read as a decimal number, commas and the point left out
RECURSIVE ReadDecimal(_)
ReadDecimal(text) ==
    IF text = <<>> THEN ZeroValue
    ELSE IF text[Len(text)] \in {",", "."} THEN ReadDecimal(SubSeq(text, 1, Len(text) - 1))
    ELSE MulAdd(ReadDecimal(SubSeq(text, 1, Len(text) - 1)), 10, DigitValue(text[Len(text)]))

\* C19: the digits of format_value(v), commas and point removed, read as a
\* decimal number give v back.
C19_FormatValueRoundTrip ==
    ev.op = "format" => ReadDecimal(DisplayedValue) = ctx.decoded_output.value

\* the largest value: 184,467,440,737,095,516.15
C19_Witness ==
    /\ ev.op = "format"
    /\ ctx.decoded_output.value = <<LIMB - 1, LIMB - 1, LIMB - 1, LIMB - 1>>
    /\ ReadDecimal(DisplayedValue) = ctx.decoded_output.value
    /\ Len(DisplayedValue) = 26


\* C20: the session state changes only from UNINITIALIZED to RECEIVING_DATA
\* (by a first data chunk), from RECEIVING_DATA to RECEIVING_DATA, from
\* RECEIVING_DATA to USER_APPROVED (by the operator's confirmation) and from
\* any state to UNINITIALIZED; there is no step from UNINITIALIZED directly to
\* USER_APPROVED and none from USER_APPROVED back to RECEIVING_DATA.
C20_StateStep ==
    /\ (ctx.state = UNINITIALIZED /\ ctx'.state # UNINITIALIZED) =>
           /\ ctx'.state = RECEIVING_DATA
           /\ ev'.op = "data"
           /\ ev'.first
    /\ (ctx.state = RECEIVING_DATA /\ ctx'.state \notin {RECEIVING_DATA, UNINITIALIZED}) =>
           /\ ctx'.state = USER_APPROVED
           /\ ev'.op = "approve"
    /\ ctx.state = USER_APPROVED => ctx'.state \in {USER_APPROVED, UNINITIALIZED}
    /\ ctx'.state \in {UNINITIALIZED, RECEIVING_DATA, USER_APPROVED}

C20_StateTransitions == [][C20_StateStep]_vars

\* C21: the state becomes USER_APPROVED only by the right button on the
\* confirm screen, and in every state with state == USER_APPROVED the decoder
\* has finished: remaining_tokens = 0, remaining_inputs = 0,
\* current_output = outputs_len and buffer_len = 0.
C21_ApprovedMeansFinished ==
    ctx.state = USER_APPROVED =>
        /\ ev.op \in {"approve", "sign", "ignored"}
        /\ ctx.remaining_tokens = 0
        /\ ctx.remaining_inputs = 0
        /\ ctx.current_output = ctx.outputs_len
        /\ ctx.buffer_len = 0

\* C22: in every reachable state 0 <= buffer_len <= sizeof(buffer) = 300;
\* buffer_len never wraps below zero when an element is consumed.
C22_BufferLenInRange ==
    /\ ctx.buffer_len >= 0
    /\ ctx.buffer_len <= BUFFER_SIZE
    /\ ~fault

(***************************************************************************)
(* The decoder on its own, one call of _decode_next_element at a time.     *)
(* The context is the one handle_sign_tx leaves after the header; the      *)
(* element bytes of a stream are appended to the buffer in pieces, as the  *)
(* p1 = 0 branch does, and _decode_next_element is called as long as       *)
(* decode_next_element's loop or the review button would call it.          *)
(***************************************************************************)
DecoderKinds == Kinds \cup {"long_script", "bad_tail"}

DecoderChanges == {NoChange, [has |-> TRUE, idx |-> 0, key |-> WALLET_KEY],
                   [has |-> TRUE, idx |-> 1, key |-> 6]}

DecoderStreams ==
    [ntok : 0..MaxTokens, nin : 0..MaxInputs, nout : 0..MaxOutputs,
     chg : DecoderChanges, kind : DecoderKinds]

\* the bytes after the 5 header bytes
ElementBytes(sp) == SubSeq(TxBytes(sp), 6, Len(TxBytes(sp)))

FeedSizes == {34, 36, 71, MAX_CHUNK}

DecoderInit ==
    /\ \E sp \in DecoderStreams :
          /\ ctx = [ZeroCtx EXCEPT !.state = RECEIVING_DATA,
                                   !.has_change_output = sp.chg.has,
                                   !.change_output_index = sp.chg.idx,
                                   !.change_key_index = sp.chg.key,
                                   !.remaining_tokens = sp.ntok,
                                   !.remaining_inputs = sp.nin,
                                   !.outputs_len = sp.nout]
          /\ host = [sp |-> sp, pos |-> 0, pure |-> FALSE, failed |-> FALSE]
    /\ screen = "idle"
    /\ reply_pending = FALSE
    /\ response = NoResponse
    /\ short_enums \in BOOLEAN
    /\ fault = FALSE
    /\ gh = NewSession
    /\ ev = [BootEvent EXCEPT !.op = "header"]

\* os_memcpy(ctx->buffer + ctx->buffer_len, data_buffer, data_length) and
\* ctx->buffer_len += data_length, when the decoder asked for more
DecoderFeed ==
    \E n \in FeedSizes :
        LET data == NextBytes(ElementBytes(host.sp), host.pos, n)
        IN  /\ ~fault
            /\ ev.op = "header" \/ (ev.op = "call" /\ ev.decode = TX_STATE_PARTIAL)
            /\ data # <<>>
            /\ ctx.buffer_len + Len(data) <= BUFFER_SIZE
            /\ ctx' = [ctx EXCEPT !.buffer = MemcpyAt(@, ctx.buffer_len, data),
                                  !.buffer_len = @ + Len(data)]
            /\ host' = [host EXCEPT !.pos = @ + Len(data)]
            /\ ev' = [BootEvent EXCEPT !.op = "feed", !.pre_state = ctx.state]
            /\ UNCHANGED <<screen, reply_pending, response, short_enums, fault, gh>>

\* one call of _decode_next_element; ev.decode is the value it throws
DecoderCallWith(r) ==
    /\ ctx' = r.c
    /\ fault' = r.crash
    /\ ev' = [BootEvent EXCEPT !.op = "call", !.pre_state = ctx.state, !.decode = r.exc,
                               !.buflen_at = ctx.buffer_len]
    /\ UNCHANGED <<screen, reply_pending, response, short_enums, host, gh>>

DecoderCall ==
    /\ ~fault
    /\ ev.op \in {"header", "feed"} \/ (ev.op = "call" /\ ev.decode \in {0, TX_STATE_READY})
    /\ DecoderCallWith(DecodeNextElementStep(ctx))

DecoderNext == DecoderFeed \/ DecoderCall

DecoderSpec == DecoderInit /\ [][DecoderNext]_vars

\* the first n bytes of the buffer are removed and the rest is moved to the
\* front in its order
Removed(n) ==
    /\ ctx.buffer_len >= n
    /\ ctx'.buffer_len = ctx.buffer_len - n
    /\ SubSeq(ctx'.buffer, 1, ctx'.buffer_len) = SubSeq(ctx.buffer, n + 1, ctx.buffer_len)

\* C23: elements are consumed in the order tokens, inputs, outputs; a call
\* that consumes a token removes the first 32 buffer bytes and decrements
\* remaining_tokens by 1, one that consumes an input removes the first 35
\* bytes and decrements remaining_inputs by 1, and the bytes not consumed are
\* kept in order at the front of the buffer.
C23_CallStep ==
    (ev'.op = "call" /\ ~fault') =>
        /\ ctx'.remaining_tokens # ctx.remaining_tokens =>
              /\ ctx'.remaining_tokens = ctx.remaining_tokens - 1
              /\ Removed(TOKEN_UID_LEN)
              /\ ctx'.remaining_inputs = ctx.remaining_inputs
              /\ ctx'.current_output = ctx.current_output
        /\ ctx'.remaining_inputs # ctx.remaining_inputs =>
              /\ ctx.remaining_tokens = 0
              /\ ctx'.remaining_inputs = ctx.remaining_inputs - 1
              /\ Removed(INPUT_LEN)
              /\ ctx'.current_output = ctx.current_output
        /\ ctx'.current_output # ctx.current_output =>
              /\ ctx.remaining_tokens = 0
              /\ ctx.remaining_inputs = 0
              /\ ctx'.current_output = ctx.current_output + 1
        /\ (ev'.decode = 0 /\ ctx.remaining_tokens > 0) =>
              ctx'.remaining_tokens = ctx.remaining_tokens - 1
        /\ (ev'.decode = 0 /\ ctx.remaining_tokens = 0 /\ ctx.remaining_inputs > 0) =>
              ctx'.remaining_inputs = ctx.remaining_inputs - 1
        /\ (ctx'.remaining_tokens = ctx.remaining_tokens
                /\ ctx'.remaining_inputs = ctx.remaining_inputs
                /\ ctx'.current_output = ctx.current_output) =>
              /\ ctx'.buffer_len = ctx.buffer_len
              /\ ctx'.buffer = ctx.buffer

C23_StrictOrder == [][C23_CallStep]_vars

\* a token, then an input were consumed and an output is left in the buffer
C23_Witness ==
    /\ ev.op = "call"
    /\ ev.decode = 0
    /\ host.sp.ntok = 1
    /\ ctx.elem_type = ELEM_INPUT
    /\ ctx.remaining_tokens = 0
    /\ ctx.remaining_inputs = 0
    /\ ev.buflen_at = ctx.buffer_len + INPUT_LEN
    /\ ctx.buffer_len > 0

\* the host's stream begins with an input whose data length is 1, and the
\* last p1 = 0 request ended in a call of _decode_next_element with the whole
\* input in the buffer
BadInputReceived ==
    /\ ev.op = "data"
    /\ ev.fed
    /\ host.pure
    /\ host.sp.kind = "bad_input"
    /\ ev.buflen_at >= INPUT_LEN

\* C24: an input whose data-length field is not zero makes
\* decode_next_element return TX_STATE_ERR without consuming the input, and
\* the session is aborted with SW_INVALID_PARAM.
C24_InputWithDataRejected ==
    BadInputReceived =>
        /\ ev.decode = TX_STATE_ERR
        /\ ev.kept
        /\ response = StatusOnly(SW_INVALID_PARAM)
        /\ ctx = ZeroCtx
        /\ screen = "idle"
        /\ ~reply_pending

C24_Witness ==
    /\ BadInputReceived
    /\ ev.decode = TX_STATE_ERR
    /\ ev.cont
    /\ response = StatusOnly(SW_INVALID_PARAM)
    /\ ctx.state = UNINITIALIZED

\* the call about to be made reads an output that is whole in the buffer
OutputAtFront ==
    /\ ctx.remaining_tokens = 0
    /\ ctx.remaining_inputs = 0
    /\ ctx.current_output < ctx.outputs_len
    /\ ~OutputShort(ctx.buffer, ctx.buffer_len)

\* width of the value field of the output at the front of the buffer
FrontValueWidth == IF ctx.buffer[1] >= 128 THEN 8 ELSE 4
FrontScriptLen == U2BE(ctx.buffer, FrontValueWidth + 1)
FrontScript ==
    SubSeq(ctx.buffer, FrontValueWidth + 4, FrontValueWidth + 3 + FrontScriptLen)

\* the script is the 25-byte pay-to-key-hash template around some hash
IsP2PKH(script) == Len(script) = 25 /\ script = P2PKHScript(SubSeq(script, 4, 23))

\* C25: an output is accepted only if its script is exactly the 25-byte
\* pay-to-key-hash template; with any other declared script length or other
\* opcode bytes decode_next_element returns TX_STATE_ERR.
C25_CallStep ==
    (ev'.op = "call" /\ OutputAtFront) =>
        IF IsP2PKH(FrontScript)
        THEN ev'.decode \in {0, TX_STATE_READY, TX_STATE_ERR}
        ELSE /\ CatchResult(ev'.decode) = TX_STATE_ERR
             /\ ctx'.current_output = ctx.current_output

C25_OnlyP2PKHAccepted == [][C25_CallStep]_vars

\* a + b in uint64_t, limb by limb from the right
RECURSIVE AddLimbs(_, _, _)
AddLimbs(a, b, carry) ==
    IF a = <<>> THEN <<>>
    ELSE LET n == Len(a)
             t == a[n] + b[n] + carry
         IN  AddLimbs(SubSeq(a, 1, n - 1), SubSeq(b, 1, n - 1), t \div LIMB) \o <<t % LIMB>>

\* v is the value the specification gives for the value field at the front
\* of the buffer
IsFrontValue(v) ==
    IF FrontValueWidth = 4
    THEN v = <<0, 0, U2BE(ctx.buffer, 0), U2BE(ctx.buffer, 2)>>
    ELSE AddLimbs(v, U8BE(ctx.buffer, 0), 0) = ZeroValue

\* the call consumed the output at the front of the buffer
OutputConsumed ==
    /\ ev'.op = "call"
    /\ ctx.remaining_tokens = 0
    /\ ctx.remaining_inputs = 0
    /\ ctx.current_output < ctx.outputs_len
    /\ ctx'.current_output = ctx.current_output + 1

\* C26: parse_output_value reads 4 bytes when the top bit of the first byte
\* is clear and gives their big-endian value, 8 bytes when it is set and gives
\* 2^64 minus their big-endian value; the 4 or 8 bytes are counted in the
\* length checks that follow and in what is removed from the buffer.
C26_CallStep ==
    OutputConsumed =>
        /\ IsFrontValue(ctx'.decoded_output.value)
        /\ FrontValueWidth + 3 + FrontScriptLen <= ctx.buffer_len
        /\ ctx'.buffer_len = ctx.buffer_len - (FrontValueWidth + 3 + FrontScriptLen)
        /\ ~fault'

C26_ValueWidthAccounted == [][C26_CallStep]_vars

\* C27: verify_change_output derives the key of path 44'/280'/0'/0/k for the
\* full 4-byte key index k of the change declaration, so declarations with
\* different key indexes are not interchangeable: an output that pays to the
\* key of index k is withheld as change only under a declaration of index k.
C27_ChangeKeyIndexInFull ==
    \A i \in 1..Len(gh.verified) :
        \A k \in ChangeKeys :
            gh.verified[i].pubkey_hash = Hash160OfKey(k) => gh.verified[i].key_index = k

\* the last step was a first p1 = 0 chunk that did not get as far as the
\* decoder: an assert_length on the change declaration or the header threw
FirstChunkCutShort == ev.op = "data" /\ ev.first /\ ev.decode = 0 /\ ~fault

\* C28: a first p1 = 0 chunk too short for the change declaration (1 byte,
\* or 6 when flagged) and the 5 header bytes is answered SW_INVALID_PARAM and
\* leaves the session UNINITIALIZED with nothing of the chunk retained.
C28_ShortFirstChunkRefused ==
    /\ (ev.op = "data" /\ ev.first /\ ~host.failed) =>
            host.pos >= Len(ChangeInfoBytes(host.sp.chg)) + 5
    /\ FirstChunkCutShort =>
            /\ response = StatusOnly(SW_INVALID_PARAM)
            /\ ctx = ZeroCtx
            /\ ctx.state = UNINITIALIZED
            /\ gh = NewSession

\* a 5-byte first chunk that declares a change output
C28_Witness ==
    /\ FirstChunkCutShort
    /\ ~ev.fed
    /\ host.sp.chg.has
    /\ host.failed
    /\ response = StatusOnly(SW_INVALID_PARAM)
    /\ ctx = ZeroCtx

MaxKeyIndex == 40
KeyIndexes == 0..MaxKeyIndex \cup ChangeKeys

Zeroed == [holds |-> "zero", index |-> 0]
PrivateScalar(k) == [holds |-> "private", index |-> k]
PublicPoint(k) == [holds |-> "public", index |-> k]

\* derive_keypair for path 44'/280'/0'/0/k: what it writes to its outputs and
\* what it leaves in its own frame when it returns
DeriveKeypair(k) ==
    [private_key |-> PrivateScalar(k),
     public_key |-> PublicPoint(k),
     private_component |-> PrivateScalar(k)]

\* verify_change_output: its result and the key material it leaves
VerifyChangeOutputLeaves(pubkey_hash, key_index) ==
    LET index == key_index % 256
        derived == DeriveKeypair(index)
    IN  [result |-> Hash160OfKey(index) = pubkey_hash,
         private_key |-> Zeroed,
         public_key |-> Zeroed,
         private_component |-> derived.private_component]

\* the signing branch of handle_sign_tx: the key material it leaves
SignTxSignLeaves(key_index) ==
    LET derived == DeriveKeypair(key_index)
    IN  [result |-> TRUE,
         private_key |-> Zeroed,
         public_key |-> Zeroed,
         private_component |-> derived.private_component]

\* a session with an output at the change index still to verify, paying to
\* the wallet's key or to another, or a session the user has approved
KeyInit ==
    /\ \E k \in KeyIndexes, h \in {Hash160OfKey(WALLET_KEY), Hash160OfKey(100)},
          st \in {RECEIVING_DATA, USER_APPROVED} :
          ctx = [ZeroCtx EXCEPT !.state = st,
                                !.has_change_output = TRUE,
                                !.change_key_index = k,
                                !.outputs_len = 1,
                                !.current_output = 1,
                                !.sha256 = <<0, 1, 0, 1, 1>>,
                                !.decoded_output.pubkey_hash = h]
    /\ screen = "idle"
    /\ reply_pending = FALSE
    /\ response = NoResponse
    /\ short_enums \in BOOLEAN
    /\ fault = FALSE
    /\ host = NoHost
    /\ gh = NewSession
    /\ ev = BootEvent

\* _decode_next_element calls verify_change_output(decoded_output,
\* change_key_index)
KeyVerify ==
    /\ ctx.state = RECEIVING_DATA
    /\ ev.op = "boot"
    /\ ev' = [op |-> "verify",
              mem |-> VerifyChangeOutputLeaves(ctx.decoded_output.pubkey_hash,
                                               ctx.change_key_index)]
    /\ UNCHANGED <<ctx, screen, reply_pending, response, short_enums, fault, host, gh>>

\* the signing branch of handle_sign_tx on an approved session
KeySign ==
    /\ ctx.state = USER_APPROVED
    /\ ev.op \in {"boot", "signed"}
    /\ \E k \in SignKeys :
          LET c == IF ctx.sighash_all.b0 = 0
                   THEN [ctx EXCEPT !.sighash_all = Digest(ctx.sha256, 2), !.sha256 = <<>>]
                   ELSE ctx
          IN  /\ ctx' = c
              /\ response' = [sw |-> SW_OK, sig |-> EcdsaSign(k, c.sighash_all)]
              /\ ev' = [op |-> "signed", mem |-> SignTxSignLeaves(k)]
    /\ UNCHANGED <<screen, reply_pending, short_enums, fault, host, gh>>

KeyNext == KeyVerify \/ KeySign

KeySpec == KeyInit /\ [][KeyNext]_vars

\* C30: the key material derived by verify_change_output and by the signing
\* branch is zeroed when they return, whether the hash matched or not:
\* private_key, public_key and derive_keypair's private_component.
C30_KeyMaterialZeroed ==
    ev.op \in {"verify", "signed"} =>
        /\ ev.mem.private_key = Zeroed
        /\ ev.mem.public_key = Zeroed
        /\ ev.mem.private_component = Zeroed

\* C31: a signing request in USER_APPROVED is answered with the signature and
\* SW_OK and leaves the state, the counters, the change declaration, the
\* working buffer and the screen as they were, so that the next signing
\* request, for any key index, is served in the same approved session.
C31_SignStep ==
    (ev'.op = "sign" /\ ctx.state = USER_APPROVED) =>
        /\ response'.sw = SW_OK
        /\ response'.sig # NoSignature
        /\ ctx' = [ctx EXCEPT !.sighash_all = ctx'.sighash_all, !.sha256 = ctx'.sha256]
        /\ ctx'.state = USER_APPROVED
        /\ screen' = screen
        /\ ~reply_pending'
        /\ ~fault'

C31_SigningKeepsSession == [][C31_SignStep]_vars

\* a second signature in one approved session, for another key index
C31_Witness ==
    /\ ev.op = "sign"
    /\ ev.pre_state = USER_APPROVED
    /\ ~ev.unsigned
    /\ response.sw = SW_OK
    /\ response.sig.key = 261
    /\ ctx.state = USER_APPROVED
    /\ ctx.outputs_len > 0

\* the step of a button of the confirm screen
ConfirmButtonStep == ev'.op \in {"ignored", "reject", "approve"}

\* C32: in USER_APPROVED a button of the confirm screen is ignored: nothing
\* is sent (no SW_USER_REJECTED, no second SW_OK) and the session, the screen
\* and the pending reply are left as they were; the state leaves
\* USER_APPROVED only by a step that zeroes the context.
C32_ButtonStep ==
    /\ (ctx.state = USER_APPROVED /\ screen = "confirm" /\ ConfirmButtonStep) =>
          /\ ev'.op = "ignored"
          /\ response' = NoResponse
          /\ ctx' = ctx
          /\ screen' = screen
          /\ reply_pending' = reply_pending
          /\ gh' = gh
    /\ (ctx.state = USER_APPROVED /\ ctx'.state # USER_APPROVED) =>
          /\ ~ConfirmButtonStep
          /\ ctx' = ZeroCtx

C32_ApprovedIgnoresButtons == [][C32_ButtonStep]_vars

\* a button pressed after the approval of a transaction with outputs
C32_Witness ==
    /\ ev.op = "ignored"
    /\ ev.pre_state = USER_APPROVED
    /\ ctx.state = USER_APPROVED
    /\ screen = "confirm"
    /\ response = NoResponse
    /\ ctx.outputs_len > 0

\* C33: from the first chunk of a session until its reset, current_output
\* does not decrease and is at most outputs_len, and remaining_tokens and
\* remaining_inputs do not increase.
C33_CounterStep ==
    /\ ctx'.current_output <= ctx'.outputs_len
    /\ (ctx.state # UNINITIALIZED /\ ctx'.state # UNINITIALIZED) =>
          /\ ctx'.current_output >= ctx.current_output
          /\ ctx'.remaining_tokens <= ctx.remaining_tokens
          /\ ctx'.remaining_inputs <= ctx.remaining_inputs
          /\ ctx'.outputs_len = ctx.outputs_len

C33_CountersMonotonic == [][C33_CounterStep]_vars

\* the last output of a transaction with a token, an input and two outputs
\* has been decoded on a both-buttons press
C33_Witness ==
    /\ ev.op = "both"
    /\ ctx.state = RECEIVING_DATA
    /\ host.sp.ntok > 0
    /\ ctx.remaining_tokens = 0
    /\ ctx.remaining_inputs = 0
    /\ ctx.outputs_len = 2
    /\ ctx.current_output = 2

\* a response sent by a step that found no request outstanding
UnrequestedResponse == ev.spurious /\ response # NoResponse

\* a p1 = 0, 1 or 2 request that was neither answered nor left outstanding
UnansweredRequest ==
    /\ ev.op \in {"data", "sign", "done"}
    /\ ~fault
    /\ response = NoResponse
    /\ ~reply_pending

\* C34: the device sends one response for each host request: a button event
\* sends a response only when a request is outstanding, and a p1 = 0, 1 or 2
\* request is either answered by its handler or left outstanding for a
\* button event to answer.
C34_OneResponsePerRequest == ~UnrequestedResponse /\ ~UnansweredRequest

\* C35: while an output is shown, display_index stays within
\* 0 .. length(info) - 12; a left press moves it down by one and does nothing
\* at 0, a right press moves it up by one and does nothing at
\* length(info) - 12, and a both-buttons press leaves it at 0.
C35_ScrollStep ==
    /\ (screen' = "compare" /\ ~fault') =>
          /\ ctx'.display_index >= 0
          /\ ctx'.display_index <= Len(ctx'.info) - SCREEN_LEN
    /\ ev'.op = "left" =>
          IF ctx.display_index = 0 THEN ctx' = ctx
          ELSE ctx' = [ctx EXCEPT !.display_index = @ - 1]
    /\ ev'.op = "right" =>
          IF ctx.display_index = Len(ctx.info) - SCREEN_LEN THEN ctx' = ctx
          ELSE ctx' = [ctx EXCEPT !.display_index = @ + 1]
    /\ ev'.op = "both" => ctx'.display_index = 0

C35_DisplayIndexInRange == [][C35_ScrollStep]_vars

\* the text of the second output has been scrolled to its end
C35_Witness ==
    /\ ev.op = "right"
    /\ screen = "compare"
    /\ ctx.decoded_output.index = 1
    /\ ctx.display_index > 0
    /\ ctx.display_index = Len(ctx.info) - SCREEN_LEN

\* a stream with nothing to review: no output, or one output that is the
\* declared change output paying to the declared key
NoReviewableOutput(sp) ==
    /\ ValidStream(sp)
    /\ \/ sp.nout = 0
       \/ sp.nout = 1 /\ sp.chg.has /\ sp.chg.idx = 0

\* the session has received the stream's bytes up to the host's position
OnTrack ==
    /\ ctx.state = RECEIVING_DATA
    /\ ~HostIdle
    /\ host.pos >= Len(ChangeInfoBytes(host.sp.chg)) + 5
    /\ gh.payload = SubSeq(TxBytes(host.sp), 1, host.pos - Len(ChangeInfoBytes(host.sp.chg)))
    /\ ctx.has_change_output = host.sp.chg.has
    /\ ctx.change_output_index = host.sp.chg.idx
    /\ ctx.change_key_index = host.sp.chg.key

\* a p1 = 0 step that starts such a stream in a fresh session, with the whole
\* header in the first chunk, or carries it on
NoReviewDataStep ==
    /\ HostMaySend
    /\ (ctx.state = UNINITIALIZED /\ HostIdle) \/ OnTrack
    /\ ev'.op = "data"
    /\ ~(ev'.first /\ ev'.decode = 0)
    /\ NoReviewableOutput(host'.sp)

\* C36: a transaction with no output, or with one output that is the declared
\* and verified change output, never shows an output; as soon as the buffer
\* holds each of its elements whole the decoder finishes and the confirm
\* screen comes up with the request left outstanding; a right press there
\* approves the transaction and a signing request is then served.
C36_Step ==
    /\ NoReviewDataStep =>
          /\ gh'.surfaced = <<>>
          /\ screen' # "compare"
          /\ ev'.decode # TX_STATE_READY
          /\ IF ev'.short
             THEN ev'.decode = TX_STATE_PARTIAL =>
                      /\ response' = StatusOnly(SW_OK)
                      /\ ctx'.state = RECEIVING_DATA
             ELSE /\ ev'.decode = TX_STATE_FINISHED
                  /\ screen' = "confirm"
                  /\ reply_pending'
                  /\ response' = NoResponse
                  /\ ctx'.state = RECEIVING_DATA
                  /\ ctx'.buffer_len = 0
                  /\ ctx'.current_output = ctx'.outputs_len
                  /\ Len(gh'.verified) = ctx'.outputs_len
                  /\ host'.pos = Len(StreamBytes(host'.sp))
    /\ (screen = "confirm" /\ reply_pending /\ gh.surfaced = <<>>
          /\ gh.last_decode = TX_STATE_FINISHED /\ ev'.op = "approve") =>
          /\ ctx'.state = USER_APPROVED
          /\ response' = StatusOnly(SW_OK)
          /\ gh'.surfaced = <<>>
    /\ (ctx.state = USER_APPROVED /\ gh.surfaced = <<>> /\ ev'.op = "sign") =>
          /\ response'.sw = SW_OK
          /\ response'.sig = EcdsaSign(response'.sig.key, ctx'.sighash_all)
          /\ response'.sig.key \in SignKeys

C36_NothingToReviewConfirms == [][C36_Step]_vars

\* a signature for a transaction whose only output was withheld as change
C36_Witness ==
    /\ ev.op = "sign"
    /\ response.sw = SW_OK
    /\ ctx.state = USER_APPROVED
    /\ ctx.outputs_len = 1
    /\ ctx.has_change_output
    /\ gh.surfaced = <<>>
    /\ Len(gh.verified) = 1
    /\ gh.payload = gh.consumed

\* C37: after power-up and after a transport reset the context is all zero
\* (state UNINITIALIZED), the idle screen is up and no request is
\* outstanding; a signature is sent only in USER_APPROVED, and the state
\* becomes USER_APPROVED only by a right press on the confirm screen, so a
\* signature after a reset needs an approval after that reset.
C37_ResetStep ==
    /\ ev'.op = "boot" =>
          /\ ctx' = ZeroCtx
          /\ ctx'.state = UNINITIALIZED
          /\ screen' = "idle"
          /\ ~reply_pending'
          /\ response' = NoResponse
          /\ gh' = NewSession
    /\ ev.op = "boot" =>
          /\ ev'.op = "sign" =>
                /\ response' = StatusOnly(SW_DEVELOPER_ERR)
                /\ ctx' = ZeroCtx
          /\ ev'.op \notin {"approve", "reject", "ignored", "left", "right", "both"}
    /\ response'.sig # NoSignature => (ev'.op = "sign" /\ ctx.state = USER_APPROVED)
    /\ (ctx.state # USER_APPROVED /\ ctx'.state = USER_APPROVED) =>
          (ev'.op = "approve" /\ screen = "confirm")

C37_ResetClearsApproval == [][C37_ResetStep]_vars

\* the transport was reset while the session was approved
C37_Witness ==
    /\ ev.op = "boot"
    /\ ev.pre_state = USER_APPROVED
    /\ ctx = ZeroCtx
    /\ screen = "idle"

=========================================================================
